---- MODULE Spec2Model ----
(***************************************************************************)
(* Model of github.com/ftl/gmtry (src/geometry.go): the window geometry    *)
(* registry (Geometry), its records (Window), the persistence codec        *)
(* (Windows.Store / LoadWindows) and the connectable used by the tests     *)
(* (testConnectable, src/geometry_test.go).                                *)
(*                                                                         *)
(* A Go int is 64 bits wide on the usual builds and a pb int32 is 32 bits  *)
(* wide.  A Go int is modelled by its two 32-bit words, each read as a     *)
(* signed number: [hi |-> h, lo |-> l] stands for h * 2^32 + (l mod 2^32). *)
(* The conversion int32(x) keeps the low word, int(i) sign-extends it.     *)
(*                                                                         *)
(* A stored payload is the sequence of its pb.Window records; every record *)
(* carries a Position and a Size, as Windows.Store writes them.            *)
(*                                                                         *)
(* A Go map holds pointers to its Windows.  The model keeps the Window a    *)
(* pointer refers to under its id; held is the one pointer a caller keeps  *)
(* beyond a call, which Restore leaves behind when it puts a new Window    *)
(* into the map.                                                           *)
(*                                                                         *)
(* Five specifications run the same actions over different callers:        *)
(* Spec (two windows sharing one connectable), SpecTwoHandles (one window  *)
(* served by two connectables), SpecCodec (Store and Restore alone, on     *)
(* registries holding ints at and beyond the ends of the int32 range),     *)
(* SpecLoad (Restore alone, on payloads that name a window more than once) *)
(* and SpecHeld (one window and a caller that keeps what Get returned).    *)
(***************************************************************************)
EXTENDS Integers, Sequences, FiniteSets, TLC

VARIABLES
    windows,        \* Geometry.windows: ID -> Window (the record the pointer refers to)
    connectables,   \* Geometry.connectables: ID -> handle
    handle,         \* the state of every Connectable object (testConnectable)
    file,           \* the content of Geometry.filename
    last,           \* the last call made on the registry and what it returned
    calls,          \* the Applyable calls issued during the last call, in order
    held            \* the *Window a caller keeps from a Get, and the object it points to

vars == <<windows, connectables, handle, file, last, calls, held>>

----------------------------------------------------------------------------
(* Values *)

\* int(i) for an int32 i (geometry.go:352-355): sign extension.
IntOfInt32(i) == [hi |-> IF i < 0 THEN -1 ELSE 0, lo |-> i]

\* int32(x) for an int x (geometry.go:369-370): the low 32 bits.
Int32OfInt(x) == x.lo

\* The zero value of int.
Zero == IntOfInt32(0)

\* 2^32 + 0: an int outside the int32 range whose low word is 0.
TwoTo32 == [hi |-> 1, lo |-> 0]

IDs == {"main", "dialog"}

Handles == {"c1", "c2"}

\* The number of distinct (width, height) pairs the callers pass.
NumSizes == 1

\* The (x, y) pairs and (width, height) pairs the callers pass and the
\* connectables are constructed with, where one window is served by two
\* connectables.
Positions == {<<TwoTo32, Zero>>}

Sizes == {<<IntOfInt32(8 * k), IntOfInt32(-6 * k)>> : k \in 1..NumSizes}

\* The pairs passed where two windows share one connectable: the windows are
\* moved and keep the size they have.
SharedPositions == {<<IntOfInt32(5), IntOfInt32(-3)>>}

SharedSizes == {<<Zero, Zero>>}

\* The content of the file: no file, bytes that proto.Unmarshal rejects, or an
\* encoded pb.Windows envelope (its records, in order).
Missing == [kind |-> "missing", pbs |-> <<>>]

Corrupt == [kind |-> "corrupt", pbs |-> <<>>]

Envelope(pbs) == [kind |-> "envelope", pbs |-> pbs]

\* A reader whose Read fails.
Unreadable == [kind |-> "unreadable", pbs |-> <<>>]

----------------------------------------------------------------------------
(* Window (geometry.go:256-299) *)

\* &Window{ID: id}
NewWindow(id) ==
    [ID |-> id, X |-> Zero, Y |-> Zero, Width |-> Zero, Height |-> Zero,
     Maximized |-> FALSE]

\* Mutant: SetPosition without the check of Maximized.
SetPositionUnguarded(w, x, y) == [w EXCEPT !.X = x, !.Y = y]

SetPosition(w, x, y) ==
    IF w.Maximized THEN w ELSE [w EXCEPT !.X = x, !.Y = y]

SetSize(w, width, height) ==
    IF w.Maximized THEN w ELSE [w EXCEPT !.Width = width, !.Height = height]

\* Mutant: leaving the maximized state resets the rectangle.
SetMaximizedClearing(w, maximized) ==
    IF maximized THEN [w EXCEPT !.Maximized = TRUE]
    ELSE [w EXCEPT !.X = Zero, !.Y = Zero, !.Width = Zero, !.Height = Zero,
                   !.Maximized = FALSE]

SetMaximized(w, maximized) == [w EXCEPT !.Maximized = maximized]

\* The calls of the Applyable interface, issued on handle h.
MoveCall(h, x, y) == [h |-> h, call |-> "Move", a |-> x, b |-> y]

ResizeCall(h, width, height) == [h |-> h, call |-> "Resize", a |-> width, b |-> height]

MaximizeCall(h) == [h |-> h, call |-> "Maximize", a |-> Zero, b |-> Zero]

\* Mutant: Apply that calls Maximize whatever the flag is.
ApplyAlwaysMaximize(w, h) ==
    <<MoveCall(h, w.X, w.Y), ResizeCall(h, w.Width, w.Height), MaximizeCall(h)>>

\* Mutant: Apply that resizes before it moves.
ApplyResizeFirst(w, h) ==
    <<ResizeCall(h, w.Width, w.Height), MoveCall(h, w.X, w.Y)>>
        \o (IF w.Maximized THEN <<MaximizeCall(h)>> ELSE <<>>)

\* w.Apply(h): the calls it issues, in order.
Apply(w, h) ==
    <<MoveCall(h, w.X, w.Y), ResizeCall(h, w.Width, w.Height)>>
        \o (IF w.Maximized THEN <<MaximizeCall(h)>> ELSE <<>>)

----------------------------------------------------------------------------
(* testConnectable (geometry_test.go:99-125) *)

Move(c, x, y) == [c EXCEPT !.X = x, !.Y = y]

Resize(c, width, height) == [c EXCEPT !.Width = width, !.Height = height]

Maximize(c) == [c EXCEPT !.Maximized = TRUE]

GetPosition(c) == <<c.X, c.Y>>

GetSize(c) == <<c.Width, c.Height>>

IsMaximized(c) == c.Maximized

\* One call arriving at its connectable.
Receive(c, call) ==
    IF call.call = "Move" THEN Move(c, call.a, call.b)
    ELSE IF call.call = "Resize" THEN Resize(c, call.a, call.b)
    ELSE Maximize(c)

\* The connectables after a sequence of calls has been issued.
RECURSIVE Perform(_, _)
Perform(cs, hs) ==
    IF cs = <<>> THEN hs
    ELSE LET c == Head(cs)
         IN  Perform(Tail(cs), [hs EXCEPT ![c.h] = Receive(hs[c.h], c)])

\* new(testConnectable)
ZeroConnectable ==
    [X |-> Zero, Y |-> Zero, Width |-> Zero, Height |-> Zero, Maximized |-> FALSE]

\* The geometries a connectable is constructed with, from positions ps and
\* sizes ss.
HandleStates(ps, ss) ==
    {[X |-> p[1], Y |-> p[2], Width |-> s[1], Height |-> s[2], Maximized |-> m] :
        p \in ps, s \in ss, m \in BOOLEAN}

----------------------------------------------------------------------------
(* Codec (geometry.go:338-387) *)

\* Mutant: pb.Window with Width and Height taken from each other.
PbWindowSwapped(w) ==
    [Name |-> w.ID,
     Position |-> [X |-> Int32OfInt(w.X), Y |-> Int32OfInt(w.Y)],
     Size |-> [Width |-> Int32OfInt(w.Height), Height |-> Int32OfInt(w.Width)],
     Maximized |-> w.Maximized]

\* pb.Window built from a Window (geometry.go:367-372).
PbWindow(w) ==
    [Name |-> w.ID,
     Position |-> [X |-> Int32OfInt(w.X), Y |-> Int32OfInt(w.Y)],
     Size |-> [Width |-> Int32OfInt(w.Width), Height |-> Int32OfInt(w.Height)],
     Maximized |-> w.Maximized]

\* Window built from a pb.Window (geometry.go:350-357).
WindowOfPb(p) ==
    [ID |-> p.Name,
     X |-> IntOfInt32(p.Position.X), Y |-> IntOfInt32(p.Position.Y),
     Width |-> IntOfInt32(p.Size.Width), Height |-> IntOfInt32(p.Size.Height),
     Maximized |-> p.Maximized]

\* The orders in which `range` may visit the keys of a map.
RangeOrders(m) ==
    {o \in [1..Cardinality(DOMAIN m) -> DOMAIN m] :
        \A i, j \in DOMAIN o : i # j => o[i] # o[j]}

\* pbWindows.Windows after the loop of Windows.Store visited w in order o.
PbWindows(w, o) == [i \in DOMAIN o |-> PbWindow(w[o[i]])]

\* The envelopes Windows.Store may build for w (geometry.go:365-375).
Marshalled(w) == {PbWindows(w, o) : o \in RangeOrders(w)}

\* m with key k set to v.
Put(m, k, v) == [x \in DOMAIN m \cup {k} |-> IF x = k THEN v ELSE m[x]]

\* Mutant: the loop of LoadWindows keeps the first record of a name.
RECURSIVE LoadLoopKeepFirst(_, _)
LoadLoopKeepFirst(pbs, result) ==
    IF pbs = <<>> THEN result
    ELSE LET window == WindowOfPb(Head(pbs))
         IN  LoadLoopKeepFirst(Tail(pbs),
                               IF window.ID \in DOMAIN result THEN result
                               ELSE Put(result, window.ID, window))

\* The loop of LoadWindows (geometry.go:348-359) over the decoded records.
RECURSIVE LoadLoop(_, _)
LoadLoop(pbs, result) ==
    IF pbs = <<>> THEN result
    ELSE LET window == WindowOfPb(Head(pbs))
         IN  LoadLoop(Tail(pbs), Put(result, window.ID, window))

\* NewWindows()
NewWindows == <<>>

\* Mutant: LoadWindows that drops the error of proto.Unmarshal.
LoadWindowsSwallow(r) ==
    IF r.kind = "unreadable" THEN [windows |-> NewWindows, err |-> TRUE]
    ELSE [windows |-> LoadLoop(r.pbs, NewWindows), err |-> FALSE]

\* LoadWindows(r) for a reader r (geometry.go:338-361): the map and whether err != nil.
LoadWindows(r) ==
    IF r.kind = "envelope" THEN [windows |-> LoadLoop(r.pbs, NewWindows), err |-> FALSE]
    ELSE [windows |-> NewWindows, err |-> TRUE]

\* What a writer does with the bytes handed to Write: it takes them all, it
\* reports fewer bytes written without an error, or it returns an error.
Writers == {"all", "short", "error"}

\* The contents a write that stops early leaves behind: the bytes up to a
\* record boundary, or up to the middle of a record.
Partial(pbs) ==
    {Envelope(SubSeq(pbs, 1, k)) : k \in 0..(Len(pbs) - 1)}
        \cup (IF pbs = <<>> THEN {} ELSE {Corrupt})

\* Mutant: Store that does not compare the count Write reports.
WindowsStoreIgnoreShort(w, writer) ==
    UNION {IF writer = "all" \/ (writer = "short" /\ pbs = <<>>)
           THEN {[written |-> Envelope(pbs), err |-> FALSE]}
           ELSE IF writer = "short"
           THEN {[written |-> f, err |-> FALSE] : f \in Partial(pbs)}
           ELSE {[written |-> f, err |-> TRUE] : f \in Partial(pbs) \cup {Envelope(pbs)}} :
           pbs \in Marshalled(w)}

\* w.Store(writer) (geometry.go:364-387): what may end up written, and
\* whether the error returned is non-nil.  A writer cannot report fewer than
\* zero bytes; a writer that returns an error may have written any part.
WindowsStore(w, writer) ==
    UNION {IF writer = "all" \/ (writer = "short" /\ pbs = <<>>)
           THEN {[written |-> Envelope(pbs), err |-> FALSE]}
           ELSE IF writer = "short"
           THEN {[written |-> f, err |-> TRUE] : f \in Partial(pbs)}
           ELSE {[written |-> f, err |-> TRUE] : f \in Partial(pbs) \cup {Envelope(pbs)}} :
           pbs \in Marshalled(w)}

\* Mutant: Get that does not insert the Window it creates.
WindowsGetNoInsert(w, id) ==
    IF id \in DOMAIN w THEN [windows |-> w, ret |-> w[id]]
    ELSE [windows |-> w, ret |-> NewWindow(id)]

\* w.Get(id) (geometry.go:390-399): the map afterwards and the Window returned.
WindowsGet(w, id) ==
    IF id \in DOMAIN w THEN [windows |-> w, ret |-> w[id]]
    ELSE [windows |-> Put(w, id, NewWindow(id)), ret |-> NewWindow(id)]

----------------------------------------------------------------------------
(* Geometry (geometry.go:181-253) *)

\* Mutant: the maximized flag is copied before position and size.
SeededFlagFirst(id, c) ==
    LET w0 == SetMaximized(NewWindow(id), IsMaximized(c))
        w1 == SetPosition(w0, GetPosition(c)[1], GetPosition(c)[2])
    IN  SetSize(w1, GetSize(c)[1], GetSize(c)[2])

\* The Window Add stores for an id it has no record of (geometry.go:201-204).
Seeded(id, c) ==
    LET w0 == NewWindow(id)
        w1 == SetPosition(w0, GetPosition(c)[1], GetPosition(c)[2])
        w2 == SetSize(w1, GetSize(c)[1], GetSize(c)[2])
    IN  SetMaximized(w2, IsMaximized(c))

\* Mutant: Add that takes the record from the connectable every time.
AddWindowsReseed(w, id, c) == Put(w, id, Seeded(id, c))

\* Mutant: Add that takes a record nobody has set for no record.
AddWindowsSeedIfZero(w, id, c) ==
    IF id \in DOMAIN w /\ w[id] # NewWindow(id) THEN w ELSE Put(w, id, Seeded(id, c))

\* Mutant: Add that registers the connectable and stores no record.
AddWindowsNoRecord(w, id, c) == w

\* Mutant: Add that copies the maximized flag of the connectable into the
\* record it already has.
AddWindowsFlag(w, id, c) ==
    IF id \in DOMAIN w THEN [w EXCEPT ![id] = SetMaximized(@, IsMaximized(c))]
    ELSE Put(w, id, Seeded(id, c))

\* g.windows after g.Add(id, h), h being in state c.
AddWindows(w, id, c) ==
    IF id \in DOMAIN w THEN w ELSE Put(w, id, Seeded(id, c))

\* The calls g.Add(id, h) issues.
AddCalls(w, id, h) ==
    IF id \in DOMAIN w THEN Apply(w[id], h) ELSE <<>>

\* Mutant: Restore that keeps the record it has for a loaded id.
RestoreWindowsKeep(w, loaded) ==
    [x \in DOMAIN w \cup DOMAIN loaded |->
        IF x \in DOMAIN w THEN w[x] ELSE loaded[x]]

\* Mutant: Restore that replaces the map by the loaded one.
RestoreWindowsReplace(w, loaded) == loaded

\* g.windows after the loop of Restore (geometry.go:244-245).
RestoreWindows(w, loaded) ==
    [x \in DOMAIN w \cup DOMAIN loaded |->
        IF x \in DOMAIN loaded THEN loaded[x] ELSE w[x]]

\* A *Window kept by a caller: none, one that points to the Window the map
\* holds for id ("live"), or one that points to a Window the map held for id
\* and holds no more ("stale"); window is the Window a stale one points to.
NoReference == [state |-> "none", id |-> "", window |-> NewWindow("")]

Live(id) == [state |-> "live", id |-> id, window |-> NewWindow(id)]

Stale(id, w) == [state |-> "stale", id |-> id, window |-> w]

\* Mutant: Restore that copies the loaded fields into the Window it has, so
\* that a reference taken before stays live.
HeldAfterRestoreAlias(r, w, loaded) == r

\* The reference r after the loop of Restore: g.windows[id] = window puts a
\* new Window into the map (geometry.go:245, 358), the one r points to stays
\* as it is.
HeldAfterRestore(r, w, loaded) ==
    IF r.state = "live" /\ r.id \in DOMAIN loaded THEN Stale(r.id, w[r.id]) ELSE r

\* Mutant: the loop of Restore ends at the first id without a connectable.
RECURSIVE RestoreCallsBreak(_, _, _)
RestoreCallsBreak(loaded, cn, o) ==
    IF o = <<>> \/ Head(o) \notin DOMAIN cn THEN <<>>
    ELSE Apply(loaded[Head(o)], cn[Head(o)]) \o RestoreCallsBreak(loaded, cn, Tail(o))

\* The calls the loop of Restore issues when it visits loaded in order o
\* (geometry.go:246-250).
RECURSIVE RestoreCalls(_, _, _)
RestoreCalls(loaded, cn, o) ==
    IF o = <<>> THEN <<>>
    ELSE LET id == Head(o)
         IN  (IF id \in DOMAIN cn THEN Apply(loaded[id], cn[id]) ELSE <<>>)
                 \o RestoreCalls(loaded, cn, Tail(o))

----------------------------------------------------------------------------
(* Specification *)

Init ==
    /\ windows = NewWindows
    /\ connectables = NewWindows
    /\ handle = [h \in Handles |-> ZeroConnectable]
    /\ file = Missing
    /\ last = [op |-> "NewGeometry"]
    /\ calls = <<>>
    /\ held = NoReference

\* Mutant: Add that keeps the connectable already registered for id.
AddKeepHandle(id, h) ==
    /\ windows' = AddWindows(windows, id, handle[h])
    /\ calls' = AddCalls(windows, id, h)
    /\ handle' = Perform(calls', handle)
    /\ connectables' = IF id \in DOMAIN connectables THEN connectables
                       ELSE Put(connectables, id, h)
    /\ last' = [op |-> "Add", id |-> id, h |-> h, known |-> id \in DOMAIN windows]
    /\ UNCHANGED <<file, held>>

\* g.Add(id, h)
Add(id, h) ==
    /\ windows' = AddWindows(windows, id, handle[h])
    /\ calls' = AddCalls(windows, id, h)
    /\ handle' = Perform(calls', handle)
    /\ connectables' = Put(connectables, id, h)
    /\ last' = [op |-> "Add", id |-> id, h |-> h, known |-> id \in DOMAIN windows]
    /\ UNCHANGED <<file, held>>

\* g.Get(id)
Get(id) ==
    /\ windows' = WindowsGet(windows, id).windows
    /\ last' = [op |-> "Get", id |-> id, ret |-> WindowsGet(windows, id).ret]
    /\ calls' = <<>>
    /\ UNCHANGED <<connectables, handle, file, held>>

\* w.SetPosition(x, y) on the Window the registry holds for id.
CallSetPosition(id, x, y) ==
    /\ id \in DOMAIN windows
    /\ windows' = [windows EXCEPT ![id] = SetPosition(@, x, y)]
    /\ last' = [op |-> "SetPosition", id |-> id, a |-> x, b |-> y]
    /\ calls' = <<>>
    /\ UNCHANGED <<connectables, handle, file, held>>

\* w.SetSize(width, height) on the Window the registry holds for id.
CallSetSize(id, width, height) ==
    /\ id \in DOMAIN windows
    /\ windows' = [windows EXCEPT ![id] = SetSize(@, width, height)]
    /\ last' = [op |-> "SetSize", id |-> id, a |-> width, b |-> height]
    /\ calls' = <<>>
    /\ UNCHANGED <<connectables, handle, file, held>>

\* w.SetMaximized(maximized) on the Window the registry holds for id.
CallSetMaximized(id, maximized) ==
    /\ id \in DOMAIN windows
    /\ windows' = [windows EXCEPT ![id] = SetMaximized(@, maximized)]
    /\ last' = [op |-> "SetMaximized", id |-> id, flag |-> maximized]
    /\ calls' = <<>>
    /\ UNCHANGED <<connectables, handle, file, held>>

\* What the file system does to a call: OpenFile fails ("open"), or the file
\* opens and the writer behaves as one of Writers.
StoreIO == {"open"} \cup Writers

\* Mutant: Store that first takes the geometry of every registered
\* connectable into its record.
StoreFromHandles(io) ==
    LET observed == [id \in DOMAIN windows |->
                        IF id \in DOMAIN connectables
                        THEN Seeded(id, handle[connectables[id]])
                        ELSE windows[id]]
    IN  /\ IF io = "open"
           THEN /\ file' = file
                /\ last' = [op |-> "Store", err |-> TRUE]
           ELSE \E out \in WindowsStore(observed, io) :
                    /\ file' = out.written
                    /\ last' = [op |-> "Store", err |-> out.err]
        /\ windows' = observed
        /\ calls' = <<>>
        /\ UNCHANGED <<connectables, handle, held>>

\* g.Store() (geometry.go:214-228).  A failed OpenFile leaves the file as it
\* is; once open the file is truncated and holds what the writer wrote.
Store(io) ==
    /\ IF io = "open"
       THEN /\ file' = file
            /\ last' = [op |-> "Store", err |-> TRUE]
       ELSE \E out \in WindowsStore(windows, io) :
                /\ file' = out.written
                /\ last' = [op |-> "Store", err |-> out.err]
    /\ calls' = <<>>
    /\ UNCHANGED <<windows, connectables, handle, held>>

\* What the file system does to a Restore: Open fails although the file may
\* exist ("open"), the read fails ("read"), or neither ("ok").
RestoreIO == {"ok", "open", "read"}

\* g.Restore() (geometry.go:230-253).  Open fails when there is no file.
Restore(io) ==
    LET loaded == LoadWindows(IF io = "read" THEN Unreadable ELSE file)
    IN  IF io = "open" \/ file = Missing \/ loaded.err
        THEN /\ last' = [op |-> "Restore", io |-> io, err |-> TRUE]
             /\ calls' = <<>>
             /\ UNCHANGED <<windows, connectables, handle, file, held>>
        ELSE \E o \in RangeOrders(loaded.windows) :
                /\ windows' = RestoreWindows(windows, loaded.windows)
                /\ held' = HeldAfterRestore(held, windows, loaded.windows)
                /\ calls' = RestoreCalls(loaded.windows, connectables, o)
                /\ handle' = Perform(calls', handle)
                /\ last' = [op |-> "Restore", io |-> io, err |-> FALSE]
                /\ UNCHANGED <<connectables, file>>

\* The caller constructs a connectable that is not registered.
NewConnectable(h, c) ==
    /\ \A id \in DOMAIN connectables : connectables[id] # h
    /\ handle' = [handle EXCEPT ![h] = c]
    /\ last' = [op |-> "NewConnectable", h |-> h]
    /\ calls' = <<>>
    /\ UNCHANGED <<windows, connectables, file, held>>

\* The stored payload is cut short or damaged outside the program.
Damage ==
    /\ file.kind = "envelope"
    /\ file.pbs # <<>>
    /\ file' = Corrupt
    /\ last' = [op |-> "Damage"]
    /\ calls' = <<>>
    /\ UNCHANGED <<windows, connectables, handle, held>>

\* w := g.Get(id), and the caller keeps w.
Keep(id) ==
    /\ windows' = WindowsGet(windows, id).windows
    /\ last' = [op |-> "Keep", id |-> id, ret |-> WindowsGet(windows, id).ret]
    /\ held' = Live(id)
    /\ calls' = <<>>
    /\ UNCHANGED <<connectables, handle, file>>

\* w.SetPosition(x, y) on the Window the caller kept.
HeldSetPosition(x, y) ==
    /\ held.state # "none"
    /\ IF held.state = "live"
       THEN /\ windows' = [windows EXCEPT ![held.id] = SetPosition(@, x, y)]
            /\ held' = held
       ELSE /\ held' = [held EXCEPT !.window = SetPosition(@, x, y)]
            /\ windows' = windows
    /\ last' = [op |-> "HeldSetPosition", id |-> held.id, a |-> x, b |-> y]
    /\ calls' = <<>>
    /\ UNCHANGED <<connectables, handle, file>>

\* w.SetSize(width, height) on the Window the caller kept.
HeldSetSize(width, height) ==
    /\ held.state # "none"
    /\ IF held.state = "live"
       THEN /\ windows' = [windows EXCEPT ![held.id] = SetSize(@, width, height)]
            /\ held' = held
       ELSE /\ held' = [held EXCEPT !.window = SetSize(@, width, height)]
            /\ windows' = windows
    /\ last' = [op |-> "HeldSetSize", id |-> held.id, a |-> width, b |-> height]
    /\ calls' = <<>>
    /\ UNCHANGED <<connectables, handle, file>>

\* w.SetMaximized(maximized) on the Window the caller kept.
HeldSetMaximized(maximized) ==
    /\ held.state # "none"
    /\ IF held.state = "live"
       THEN /\ windows' = [windows EXCEPT ![held.id] = SetMaximized(@, maximized)]
            /\ held' = held
       ELSE /\ held' = [held EXCEPT !.window = SetMaximized(@, maximized)]
            /\ windows' = windows
    /\ last' = [op |-> "HeldSetMaximized", id |-> held.id, flag |-> maximized]
    /\ calls' = <<>>
    /\ UNCHANGED <<connectables, handle, file>>

\* Every call the callers make with ids from ids, connectables from hs,
\* positions from ps and sizes from ss.
Step(ids, hs, ps, ss) ==
    \/ \E id \in ids, h \in hs : Add(id, h)
    \/ \E id \in ids : Get(id)
    \/ \E id \in ids, p \in ps : CallSetPosition(id, p[1], p[2])
    \/ \E id \in ids, s \in ss : CallSetSize(id, s[1], s[2])
    \/ \E id \in ids, m \in BOOLEAN : CallSetMaximized(id, m)
    \/ \E io \in StoreIO : Store(io)
    \/ \E io \in RestoreIO : Restore(io)
    \/ \E h \in hs, c \in HandleStates(ps, ss) : NewConnectable(h, c)
    \/ Damage

\* Two windows sharing one connectable object.
Next == Step(IDs, {"c1"}, SharedPositions, SharedSizes)

\* One window served by two connectable objects.
NextTwoHandles == Step({"main"}, Handles, Positions, Sizes)

\* The ints the codec is tried on: small ones, the ends of the int32 range,
\* and ints beyond it (2^31, -2^31 - 1, 2^32 + 8).
MaxInt32 == [hi |-> 0, lo |-> 2147483647]

MinInt32 == [hi |-> -1, lo |-> -2147483647 - 1]

CodecPositions ==
    {<<Zero, Zero>>, <<IntOfInt32(5), IntOfInt32(-3)>>, <<MaxInt32, MinInt32>>,
     <<[hi |-> 0, lo |-> -2147483647 - 1], [hi |-> -1, lo |-> 2147483647]>>}

CodecSizes ==
    {<<Zero, Zero>>, <<IntOfInt32(8), IntOfInt32(6)>>,
     <<[hi |-> 1, lo |-> 8], IntOfInt32(6)>>}

CodecWindow(id, p, s, m) ==
    [ID |-> id, X |-> p[1], Y |-> p[2], Width |-> s[1], Height |-> s[2],
     Maximized |-> m]

\* The window maps Get and the setters can build over IDs from these values.
CodecMaps ==
    UNION {[D -> CodecPositions \X CodecSizes \X BOOLEAN] : D \in SUBSET IDs}

\* A registry whose records earlier calls have set, and no file yet.
InitCodec ==
    /\ \E g \in CodecMaps :
            windows = [id \in DOMAIN g |-> CodecWindow(id, g[id][1], g[id][2], g[id][3])]
    /\ connectables = NewWindows
    /\ handle = [h \in Handles |-> ZeroConnectable]
    /\ file = Missing
    /\ last = [op |-> "NewGeometry"]
    /\ calls = <<>>
    /\ held = NoReference

\* Storing and restoring only.
NextCodec ==
    \/ \E io \in StoreIO : Store(io)
    \/ \E io \in RestoreIO : Restore(io)
    \/ Damage

\* The longest payload written by another program that is loaded.
MaxRecords == 3

\* Records of such a payload: it may name a window more than once.
PayloadRecord(id, x, m) ==
    [Name |-> id, Position |-> [X |-> x, Y |-> 0],
     Size |-> [Width |-> 0, Height |-> 0], Maximized |-> m]

PayloadRecords ==
    {PayloadRecord(id, 7, FALSE) : id \in IDs} \cup {PayloadRecord(id, -2, TRUE) : id \in IDs}

Payloads == UNION {[1..n -> PayloadRecords] : n \in 0..MaxRecords}

\* A new registry and a file that holds one of these payloads.
InitLoad ==
    /\ windows = NewWindows
    /\ connectables = NewWindows
    /\ handle = [h \in Handles |-> ZeroConnectable]
    /\ file \in {Envelope(pbs) : pbs \in Payloads}
    /\ last = [op |-> "NewGeometry"]
    /\ calls = <<>>
    /\ held = NoReference

\* Loading only.
NextLoad == \E io \in RestoreIO : Restore(io)

\* The sizes passed through a kept reference.
HeldSizes == {<<IntOfInt32(8), IntOfInt32(6)>>}

\* One window, one connectable, and a caller that keeps what Get returned.
NextHeld ==
    \/ Step({"main"}, {"c1"}, SharedPositions, SharedSizes)
    \/ Keep("main")
    \/ \E p \in SharedPositions : HeldSetPosition(p[1], p[2])
    \/ \E s \in HeldSizes : HeldSetSize(s[1], s[2])
    \/ \E m \in BOOLEAN : HeldSetMaximized(m)

Spec == Init /\ [][Next]_vars

SpecHeld == Init /\ [][NextHeld]_vars

SpecLoad == InitLoad /\ [][NextLoad]_vars

SpecCodec == InitCodec /\ [][NextCodec]_vars

SpecTwoHandles == Init /\ [][NextTwoHandles]_vars

----------------------------------------------------------------------------
(* Vocabulary of the properties *)

\* The rectangle and the whole geometry of a Window or of a connectable.
Rect(w) == <<w.X, w.Y, w.Width, w.Height>>

Geom(w) == <<w.X, w.Y, w.Width, w.Height, w.Maximized>>

\* The names in the stored payload, and the record decoded for a name: the
\* last one that carries it.
PayloadNames(f) == {f.pbs[i].Name : i \in DOMAIN f.pbs}

LastIndex(f, id) ==
    CHOOSE i \in DOMAIN f.pbs :
        /\ f.pbs[i].Name = id
        /\ \A j \in DOMAIN f.pbs : f.pbs[j].Name = id => j <= i

Decoded(f, id) == WindowOfPb(f.pbs[LastIndex(f, id)])

\* x survives int32(x) followed by int(...).
InInt32Range(x) == x = IntOfInt32(Int32OfInt(x))

AllInInt32Range(w) ==
    \A id \in DOMAIN w :
        /\ InInt32Range(w[id].X) /\ InInt32Range(w[id].Y)
        /\ InInt32Range(w[id].Width) /\ InInt32Range(w[id].Height)

StoredOk == last.op = "Store" /\ ~last.err

----------------------------------------------------------------------------
(* C1 *)

\* C1 as stated: after a Store that succeeded, loading the stored payload
\* into a fresh registry yields the same ids and, for every id, a Window
\* equal in all fields, whatever integers the windows hold.
C1_RoundTripAnyInt ==
    StoredOk =>
        /\ ~LoadWindows(file).err
        /\ RestoreWindows(NewWindows, LoadWindows(file).windows) = windows

\* C1 amended: the round trip is exact when X, Y, Width and Height of every
\* window lie in the int32 range.
C1_RoundTripInt32 ==
    (StoredOk /\ AllInInt32Range(windows)) =>
        /\ ~LoadWindows(file).err
        /\ RestoreWindows(NewWindows, LoadWindows(file).windows) = windows

\* Two windows were stored, one maximized and at the ends of the int32
\* range, one not maximized with a negative coordinate and a non-zero size.
C1_Witness ==
    /\ StoredOk
    /\ DOMAIN windows = IDs
    /\ AllInInt32Range(windows)
    /\ Len(file.pbs) = Cardinality(IDs)
    /\ \E id \in IDs :
            /\ windows[id].Maximized
            /\ windows[id].X = MaxInt32 /\ windows[id].Y = MinInt32
    /\ \E id \in IDs :
            /\ ~windows[id].Maximized
            /\ windows[id].Y = IntOfInt32(-3) /\ windows[id].Height = IntOfInt32(6)

----------------------------------------------------------------------------
(* C2 *)

IsSetter(l) == l.op \in {"SetPosition", "SetSize"}

\* C2: a SetPosition or SetSize call made while the Window is maximized
\* leaves X, Y, Width and Height as they were; a call made while it is not
\* maximized sets the two fields it names and leaves the other two.
C2_MaximizeFreeze ==
    [][IsSetter(last') =>
        LET id == last'.id
            w == windows[id]
            w2 == windows'[id]
        IN  /\ w.Maximized => Rect(w2) = Rect(w)
            /\ Rect(w2) # Rect(w) => ~w.Maximized
            /\ (~w.Maximized /\ last'.op = "SetPosition") =>
                    Rect(w2) = <<last'.a, last'.b, w.Width, w.Height>>
            /\ (~w.Maximized /\ last'.op = "SetSize") =>
                    Rect(w2) = <<w.X, w.Y, last'.a, last'.b>>
            /\ w2.Maximized = w.Maximized]_vars

\* A setter was called on a maximized Window with values it does not hold.
C2_Witness ==
    /\ IsSetter(last)
    /\ windows[last.id].Maximized
    /\ last.op = "SetPosition" => <<last.a, last.b>> # <<windows[last.id].X, windows[last.id].Y>>
    /\ last.op = "SetSize" =>
            <<last.a, last.b>> # <<windows[last.id].Width, windows[last.id].Height>>

----------------------------------------------------------------------------
(* C3 *)

FirstAdd(l) == l.op = "Add" /\ ~l.known

\* The Window with ID id that holds the geometry connectable c reports.
WindowFrom(id, c) ==
    [ID |-> id, X |-> GetPosition(c)[1], Y |-> GetPosition(c)[2],
     Width |-> GetSize(c)[1], Height |-> GetSize(c)[2],
     Maximized |-> IsMaximized(c)]

\* C3: Add(id, h) on an id without a record creates the record with ID = id
\* and exactly the position, size and maximized flag h reports, and a Get(id)
\* that follows returns that record.
C3_AddSeedsFromHandle ==
    [][/\ FirstAdd(last') =>
            /\ last'.id \notin DOMAIN windows
            /\ DOMAIN windows' = DOMAIN windows \cup {last'.id}
            /\ windows'[last'.id] = WindowFrom(last'.id, handle[last'.h])
       /\ (FirstAdd(last) /\ last'.op = "Get" /\ last'.id = last.id) =>
            last'.ret = WindowFrom(last.id, handle[last.h])]_vars

\* A first Add took its record from a maximized connectable with a non-zero
\* position and size.
C3_Witness ==
    /\ FirstAdd(last)
    /\ handle[last.h].Maximized
    /\ handle[last.h].X # Zero
    /\ handle[last.h].Width # Zero
    /\ Geom(windows[last.id]) = Geom(handle[last.h])

----------------------------------------------------------------------------
(* C4 *)

AddAfterFirstAdd(l, l2) == FirstAdd(l) /\ l2.op = "Add" /\ l2.id = l.id

\* C4 as stated: Add(id, h1) on a fresh id followed by Add(id, h2) leaves h2
\* with the position, size and maximized state h1 had, whatever h2 started
\* with.
C4_AddAgainAnyHandle ==
    [][AddAfterFirstAdd(last, last') =>
        Geom(handle'[last'.h]) = Geom(handle[last.h])]_vars

\* C4 amended: h2 ends with the position and size stored from h1; it ends
\* maximized exactly when h1 was maximized or h2 itself started maximized
\* (Apply never leaves the maximized state).
C4_AddAgainAmended ==
    [][AddAfterFirstAdd(last, last') =>
        /\ Rect(handle'[last'.h]) = Rect(handle[last.h])
        /\ handle'[last'.h].Maximized =
                (handle[last.h].Maximized \/ handle[last'.h].Maximized)]_vars

\* A second connectable was added under the id of the first and now shows
\* the geometry of the first, which is maximized and not zero.
C4_Witness ==
    /\ last.op = "Add" /\ last.known /\ last.h = "c2"
    /\ Geom(handle["c2"]) = Geom(handle["c1"])
    /\ Geom(handle["c2"]) = Geom(windows[last.id])
    /\ handle["c1"].Maximized
    /\ handle["c1"].X # Zero /\ handle["c1"].Height # Zero

----------------------------------------------------------------------------
(* C5 *)

\* C5: Get(id) is always possible; on an id without a record it returns the
\* zero Window with ID = id and inserts it, on an id with a record it returns
\* that record and changes nothing; a second Get(id) returns the same.
C5_GetDefault ==
    /\ [](\A id \in IDs : ENABLED Get(id))
    /\ [][last'.op = "Get" =>
            LET id == last'.id
            IN  /\ id \notin DOMAIN windows =>
                    /\ last'.ret = [ID |-> id, X |-> Zero, Y |-> Zero,
                                    Width |-> Zero, Height |-> Zero,
                                    Maximized |-> FALSE]
                    /\ DOMAIN windows' = DOMAIN windows \cup {id}
                    /\ windows'[id] = last'.ret
                    /\ \A x \in DOMAIN windows : windows'[x] = windows[x]
                /\ id \in DOMAIN windows =>
                    /\ last'.ret = windows[id]
                    /\ windows' = windows
                /\ UNCHANGED <<connectables, handle, file>>]_vars
    /\ [][(last.op = "Get" /\ last'.op = "Get" /\ last'.id = last.id) =>
            (last'.ret = last.ret /\ windows' = windows)]_vars

\* Get returned the zero Window for an id while another id holds a record
\* that is not zero.
C5_Witness ==
    /\ last.op = "Get"
    /\ last.ret = NewWindow(last.id)
    /\ windows[last.id] = last.ret
    /\ \E x \in DOMAIN windows : x # last.id /\ Rect(windows[x]) # Rect(last.ret)

----------------------------------------------------------------------------
(* C6 *)

RestoreFailed(l) == l.op = "Restore" /\ l.err

RestoreOk(l) == l.op = "Restore" /\ ~l.err

\* C6: a Restore that finds no file, cannot open or read it, or finds a
\* payload that does not decode returns an error; a Restore that returns an
\* error leaves every record and every registration as it was and issues no
\* Move, Resize or Maximize call.
C6_RestoreFailureIsolation ==
    [][last'.op = "Restore" =>
        /\ (last'.io # "ok" \/ file = Missing \/ file = Corrupt) => last'.err
        /\ last'.err =>
            /\ windows' = windows
            /\ connectables' = connectables
            /\ calls' = <<>>
            /\ handle' = handle]_vars

\* A Restore failed on a damaged payload while records and a registered
\* connectable exist.
C6_Witness ==
    /\ RestoreFailed(last)
    /\ last.io = "ok"
    /\ file = Corrupt
    /\ DOMAIN windows = IDs
    /\ DOMAIN connectables # {}
    /\ \E id \in IDs : Rect(windows[id]) # Rect(NewWindow(id))

----------------------------------------------------------------------------
(* C7 *)

\* C7: after a Restore that succeeded the record of every id in the payload
\* is the decoded record, whatever record was there before, and every other
\* record is as it was.
C7_RestoreMerges ==
    [][RestoreOk(last') =>
        /\ file.kind = "envelope"
        /\ DOMAIN windows' = DOMAIN windows \cup PayloadNames(file)
        /\ \A id \in PayloadNames(file) : windows'[id] = Decoded(file, id)
        /\ \A id \in DOMAIN windows \ PayloadNames(file) :
                windows'[id] = windows[id]]_vars

\* A Restore succeeded with one id in the payload and another id, whose
\* record is not zero, outside it.
C7_Witness ==
    /\ RestoreOk(last)
    /\ \E id \in PayloadNames(file) :
            /\ windows[id] = Decoded(file, id)
            /\ Rect(windows[id]) # Rect(NewWindow(id))
    /\ \E id \in DOMAIN windows \ PayloadNames(file) :
            windows[id].Maximized /\ Rect(windows[id]) # Rect(NewWindow(id))

----------------------------------------------------------------------------
(* C8 *)

\* The ids under which connectable h is registered.
RegisteredAs(cn, h) == {id \in DOMAIN cn : cn[id] = h}

\* cs holds the calls of part, next to each other and in order.
HasRun(cs, part) ==
    \E k \in 0..(Len(cs) - Len(part)) : SubSeq(cs, k + 1, k + Len(part)) = part

\* C8: a Restore that succeeded issues, for every decoded id with a
\* registered connectable, Move to the decoded x/y, Resize to the decoded
\* width/height and Maximize if the decoded record is maximized, on that
\* connectable; it issues nothing else, so a connectable registered only under
\* ids outside the payload receives no call.
C8_RestoreReapplies ==
    [][RestoreOk(last') =>
        LET ids == PayloadNames(file) \cap DOMAIN connectables
        IN  /\ \A id \in ids :
                    HasRun(calls',
                           <<MoveCall(connectables[id], Decoded(file, id).X,
                                      Decoded(file, id).Y),
                             ResizeCall(connectables[id], Decoded(file, id).Width,
                                        Decoded(file, id).Height)>>
                           \o (IF Decoded(file, id).Maximized
                               THEN <<MaximizeCall(connectables[id])>> ELSE <<>>))
            /\ Len(calls') =
                    2 * Cardinality(ids)
                        + Cardinality({id \in ids : Decoded(file, id).Maximized})
            /\ \A h \in Handles :
                    RegisteredAs(connectables, h) \cap PayloadNames(file) = {} =>
                        /\ \A i \in DOMAIN calls' : calls'[i].h # h
                        /\ handle'[h] = handle[h]
            /\ \A h \in Handles :
                    \A id \in ids :
                        RegisteredAs(connectables, h) \cap PayloadNames(file) = {id} =>
                            /\ Rect(handle'[h]) = Rect(Decoded(file, id))
                            /\ Decoded(file, id).Maximized => handle'[h].Maximized]_vars

\* A Restore applied a maximized, non-zero decoded record to the registered
\* connectable of its id.
C8_Witness ==
    /\ RestoreOk(last)
    /\ Len(calls) = 3
    /\ \E id \in PayloadNames(file) \cap DOMAIN connectables :
            /\ Geom(handle[connectables[id]]) = Geom(Decoded(file, id))
            /\ Rect(Decoded(file, id)) # Rect(NewWindow(id))

\* A Restore issued no call although a connectable is registered: its id is
\* not in the payload, which holds another id.
C8_WitnessNoCall ==
    /\ RestoreOk(last)
    /\ calls = <<>>
    /\ PayloadNames(file) # {}
    /\ DOMAIN connectables # {}

----------------------------------------------------------------------------
(* C9 *)

\* C9: when a Restore that succeeded loaded a record for an id without a
\* registered connectable, the Add(id, h) that follows finds that record,
\* applies it to h and leaves it unchanged.
C9_RestoreThenAdd ==
    [][(/\ RestoreOk(last)
        /\ last'.op = "Add"
        /\ last'.id \in PayloadNames(file)
        /\ last'.id \notin DOMAIN connectables) =>
        LET id == last'.id
            h == last'.h
            w == Decoded(file, id)
        IN  /\ last'.known
            /\ windows[id] = w
            /\ windows'[id] = w
            /\ windows' = windows
            /\ calls' = <<MoveCall(h, w.X, w.Y), ResizeCall(h, w.Width, w.Height)>>
                            \o (IF w.Maximized THEN <<MaximizeCall(h)>> ELSE <<>>)
            /\ Rect(handle'[h]) = Rect(w)
            /\ w.Maximized => handle'[h].Maximized
            /\ connectables'[id] = h]_vars

\* An Add found a record that equals the decoded payload record, maximized
\* and not zero, and applied it.
C9_Witness ==
    /\ last.op = "Add" /\ last.known
    /\ file.kind = "envelope"
    /\ last.id \in PayloadNames(file)
    /\ windows[last.id] = Decoded(file, last.id)
    /\ windows[last.id].Maximized
    /\ windows[last.id].Height # Zero
    /\ Len(calls) = 3
    /\ Geom(handle[last.h]) = Geom(windows[last.id])

----------------------------------------------------------------------------
(* C10 *)

\* C10: no call removes an id from the windows map.
C10_RecordsNeverRemoved ==
    [][DOMAIN windows \subseteq DOMAIN windows']_vars

\* After a Restore that succeeded, an id that the payload does not hold still
\* has its record.
C10_Witness ==
    /\ RestoreOk(last)
    /\ PayloadNames(file) # {}
    /\ DOMAIN windows \ PayloadNames(file) # {}

----------------------------------------------------------------------------
(* C11 *)

AddKnown(l) == l.op = "Add" /\ l.known

\* C11: Apply, as Add runs it on the record w of a known id, issues Move(w.X,
\* w.Y), then Resize(w.Width, w.Height), then Maximize() exactly when
\* w.Maximized, on the connectable given and nothing else; no call takes the
\* connectable out of the maximized state; every field of w stays as it was.
C11_ApplySequenceAndFrame ==
    [][AddKnown(last') =>
        LET w == windows[last'.id]
            h == last'.h
        IN  /\ Len(calls') = (IF w.Maximized THEN 3 ELSE 2)
            /\ calls'[1] = [h |-> h, call |-> "Move", a |-> w.X, b |-> w.Y]
            /\ calls'[2] = [h |-> h, call |-> "Resize", a |-> w.Width, b |-> w.Height]
            /\ w.Maximized => calls'[3].h = h /\ calls'[3].call = "Maximize"
            /\ handle[h].Maximized => handle'[h].Maximized
            /\ \A x \in Handles \ {h} : handle'[x] = handle[x]
            /\ windows'[last'.id] = w]_vars

\* Apply ran on a record that is not maximized and not zero: two calls, Move
\* first, and the connectable shows the rectangle of the record.
C11_Witness ==
    /\ AddKnown(last)
    /\ ~windows[last.id].Maximized
    /\ windows[last.id].X # Zero /\ windows[last.id].Width # Zero
    /\ Len(calls) = 2
    /\ calls[1].call = "Move" /\ calls[2].call = "Resize"
    /\ Rect(handle[last.h]) = Rect(windows[last.id])

----------------------------------------------------------------------------
(* C12 *)

\* C12: SetMaximized(flag) sets Maximized to flag whatever the Window holds
\* and leaves ID, X, Y, Width and Height as they were; no other record
\* changes.
C12_SetMaximizedUnconditional ==
    [][last'.op = "SetMaximized" =>
        LET id == last'.id
            w == windows[id]
        IN  /\ windows'[id] = [ID |-> w.ID, X |-> w.X, Y |-> w.Y,
                               Width |-> w.Width, Height |-> w.Height,
                               Maximized |-> last'.flag]
            /\ DOMAIN windows' = DOMAIN windows
            /\ \A x \in DOMAIN windows \ {id} : windows'[x] = windows[x]]_vars

\* SetMaximized(false) was called and the record, no longer maximized, holds
\* a rectangle that is not zero.
C12_Witness ==
    /\ last.op = "SetMaximized"
    /\ ~last.flag
    /\ ~windows[last.id].Maximized
    /\ windows[last.id].X # Zero /\ windows[last.id].Height # Zero

----------------------------------------------------------------------------
(* C13 *)

\* The connectables registered under some id.
Registered(cn) == {cn[id] : id \in DOMAIN cn}

\* C13: Add(id, h) makes h the connectable registered for id, whichever was
\* registered before, and nothing but Add changes a registration; a Restore
\* that succeeded on a payload holding id applies the decoded record to the
\* connectable registered for id and issues no call on a connectable that is
\* registered under no id.
C13_AddReplacesHandle ==
    /\ [][last'.op = "Add" =>
            /\ DOMAIN connectables' = DOMAIN connectables \cup {last'.id}
            /\ connectables'[last'.id] = last'.h
            /\ \A x \in DOMAIN connectables \ {last'.id} :
                    connectables'[x] = connectables[x]]_vars
    /\ [][connectables' # connectables => last'.op = "Add"]_vars
    /\ [][RestoreOk(last') =>
            /\ \A id \in PayloadNames(file) \cap DOMAIN connectables :
                    HasRun(calls',
                           <<MoveCall(connectables[id], Decoded(file, id).X,
                                      Decoded(file, id).Y),
                             ResizeCall(connectables[id], Decoded(file, id).Width,
                                        Decoded(file, id).Height)>>)
            /\ \A h \in Handles \ Registered(connectables) :
                    /\ \A i \in DOMAIN calls' : calls'[i].h # h
                    /\ handle'[h] = handle[h]]_vars

\* c1 was registered for main (it shows a rectangle only Apply gives a
\* connectable: moved, never sized), c2 was added for main after it, and a
\* Restore that succeeded gave c2 the decoded rectangle and left c1 alone.
C13_Witness ==
    /\ RestoreOk(last)
    /\ "main" \in PayloadNames(file)
    /\ "main" \in DOMAIN connectables
    /\ connectables["main"] = "c2"
    /\ handle["c1"].X = TwoTo32 /\ handle["c1"].Width = Zero
    /\ Decoded(file, "main").Width # Zero
    /\ Rect(handle["c2"]) = Rect(Decoded(file, "main"))
    /\ \A i \in DOMAIN calls : calls[i].h = "c2"

----------------------------------------------------------------------------
(* C14 *)

\* C14: Add(id, h) on an id that has a record leaves the windows map and
\* every field of that record as they were, whatever position, size and
\* maximized state h reports.
C14_AddKeepsRecord ==
    [][AddKnown(last') =>
        LET id == last'.id
        IN  /\ DOMAIN windows' = DOMAIN windows
            /\ Geom(windows'[id]) = Geom(windows[id])
            /\ windows'[id].ID = windows[id].ID
            /\ \A x \in DOMAIN windows \ {id} : windows'[x] = windows[x]]_vars

\* An Add found a record that is not maximized and not zero while the
\* connectable it was given is maximized (as it was before the call: Apply
\* does not maximize for this record).
C14_Witness ==
    /\ AddKnown(last)
    /\ ~windows[last.id].Maximized
    /\ windows[last.id].Y = Zero /\ windows[last.id].Height # Zero
    /\ handle[last.h].Maximized
    /\ Len(calls) = 2

----------------------------------------------------------------------------
(* C15 *)

\* C15: LoadWindows gives one Window per distinct name of the payload, and
\* the Window of a name has the fields of the last record that carries the
\* name; a Restore that succeeded on a new registry holds exactly these.
\* (Every record of the payload carries a position and a size.)
C15_DuplicateNamesLastWins ==
    file.kind = "envelope" =>
        LET result == LoadWindows(file).windows
        IN  /\ ~LoadWindows(file).err
            /\ DOMAIN result = PayloadNames(file)
            /\ \A id \in PayloadNames(file) :
                    \E i \in DOMAIN file.pbs :
                        /\ file.pbs[i].Name = id
                        /\ \A j \in DOMAIN file.pbs : j > i => file.pbs[j].Name # id
                        /\ result[id].ID = id
                        /\ result[id].X = IntOfInt32(file.pbs[i].Position.X)
                        /\ result[id].Y = IntOfInt32(file.pbs[i].Position.Y)
                        /\ result[id].Width = IntOfInt32(file.pbs[i].Size.Width)
                        /\ result[id].Height = IntOfInt32(file.pbs[i].Size.Height)
                        /\ result[id].Maximized = file.pbs[i].Maximized
            /\ RestoreOk(last) => windows = result

\* A payload of three records was restored: two of them carry the same name
\* and differ, a record of another name follows the first of them, and the
\* registry holds the later of the two.
C15_Witness ==
    /\ RestoreOk(last)
    /\ Len(file.pbs) = 3
    /\ file.pbs[1].Name = file.pbs[3].Name
    /\ file.pbs[2].Name # file.pbs[1].Name
    /\ file.pbs[1] # file.pbs[3]
    /\ DOMAIN windows = IDs
    /\ windows[file.pbs[3].Name] = WindowOfPb(file.pbs[3])
    /\ windows[file.pbs[3].Name] # WindowOfPb(file.pbs[1])

----------------------------------------------------------------------------
(* C16 *)

\* The complete envelopes a Store of w may write.
Complete(w) == {Envelope(pbs) : pbs \in Marshalled(w)}

\* What one Write that stops early may leave of them.
Incomplete(w) == UNION {Partial(pbs) : pbs \in Marshalled(w)}

\* C16: a Store whose writer returns an error returns an error; so does a
\* Store whose writer reports fewer bytes than it was handed (which takes a
\* payload that has bytes); a Store that returns nil has left a complete
\* envelope of the windows in the file; a Store that returns an error has
\* left the file as it was (it did not open) or as one Write left it.
C16_StoreWriteFailures ==
    [][last'.op = "Store" =>
        /\ Store("error") => last'.err
        /\ (Store("short") /\ windows # NewWindows) => last'.err
        /\ Store("open") => last'.err /\ file' = file
        /\ ~last'.err => file' \in Complete(windows)
        /\ last'.err => file' \in {file} \cup Incomplete(windows) \cup Complete(windows)]_vars

\* A Store of two windows returned an error and left one record in the file.
C16_Witness ==
    /\ last.op = "Store"
    /\ last.err
    /\ DOMAIN windows = IDs
    /\ file.kind = "envelope"
    /\ Len(file.pbs) = 1

----------------------------------------------------------------------------
(* C17 *)

\* Record r of a payload holds what Window w holds, narrowed to int32.
Persists(r, w) ==
    /\ r.Name = w.ID
    /\ r.Position.X = Int32OfInt(w.X) /\ r.Position.Y = Int32OfInt(w.Y)
    /\ r.Size.Width = Int32OfInt(w.Width) /\ r.Size.Height = Int32OfInt(w.Height)
    /\ r.Maximized = w.Maximized

\* C17: a Store, whether it returns an error or not, leaves the windows map,
\* every record, the connectables map and every connectable as they were and
\* issues no call; the records it writes are those of the windows map as it
\* is, one per id when it succeeds.
C17_StoreReadOnly ==
    [][last'.op = "Store" =>
        /\ windows' = windows
        /\ connectables' = connectables
        /\ handle' = handle
        /\ calls' = <<>>
        /\ file' # file =>
                \A i \in DOMAIN file'.pbs :
                    /\ file'.pbs[i].Name \in DOMAIN windows
                    /\ Persists(file'.pbs[i], windows[file'.pbs[i].Name])
        /\ ~last'.err =>
                /\ file'.kind = "envelope"
                /\ Len(file'.pbs) = Cardinality(DOMAIN windows)
                /\ PayloadNames(file') = DOMAIN windows
                /\ \A i \in DOMAIN file'.pbs :
                        Persists(file'.pbs[i], windows[file'.pbs[i].Name])]_vars

\* A Store succeeded while the connectable registered for main shows another
\* geometry than the record of main: the file holds the record.
C17_Witness ==
    /\ StoredOk
    /\ "main" \in DOMAIN connectables
    /\ windows["main"].Maximized
    /\ ~handle[connectables["main"]].Maximized
    /\ Rect(windows["main"]) # Rect(handle[connectables["main"]])
    /\ Len(file.pbs) = 1
    /\ Persists(file.pbs[1], windows["main"])

----------------------------------------------------------------------------
(* C18 *)

ThroughHeld(l) == l.op \in {"HeldSetPosition", "HeldSetSize", "HeldSetMaximized"}

\* C18: a Restore that succeeded on a payload holding id puts a new Window
\* into the map for id, so a reference a caller kept from Get(id) points to
\* the Window the map held before, and it stays so until the caller takes a
\* new one; a setter called through such a reference changes neither the
\* map, nor what Get(id) returns, nor what a Store may write.
C18_StaleReferenceDetached ==
    /\ [][(RestoreOk(last') /\ held.state = "live" /\ held.id \in PayloadNames(file)) =>
            /\ held'.state = "stale"
            /\ held'.id = held.id
            /\ held'.window = windows[held.id]
            /\ windows'[held.id] = Decoded(file, held.id)]_vars
    /\ [][(held.state = "stale" /\ last'.op # "Keep") => held'.state = "stale"]_vars
    /\ [][(ThroughHeld(last') /\ held.state = "stale") =>
            /\ windows' = windows
            /\ WindowsGet(windows', held.id) = WindowsGet(windows, held.id)
            /\ Complete(windows') = Complete(windows)
            /\ UNCHANGED <<connectables, handle, file>>]_vars

\* SetPosition was called through a reference taken before a Restore: the
\* Window it points to took the position, the record of the map did not.
C18_Witness ==
    /\ last.op = "HeldSetPosition"
    /\ held.state = "stale"
    /\ held.window.X = last.a /\ held.window.Y = last.b
    /\ windows[held.id].X # last.a
    /\ ~windows[held.id].Maximized

----------------------------------------------------------------------------
(* C19 *)

\* C19: when Get(id) returned the zero Window, as it does for an id without a
\* record, the Add(id, h) that follows finds the record: it calls Move(0, 0)
\* and Resize(0, 0) on h and nothing else, and the record stays zero and not
\* maximized whatever h reports.
C19_GetThenAdd ==
    [][(/\ last.op = "Get"
        /\ Geom(last.ret) = <<Zero, Zero, Zero, Zero, FALSE>>
        /\ last'.op = "Add"
        /\ last'.id = last.id) =>
        LET id == last'.id
            h == last'.h
        IN  /\ last'.known
            /\ calls' = <<[h |-> h, call |-> "Move", a |-> Zero, b |-> Zero],
                          [h |-> h, call |-> "Resize", a |-> Zero, b |-> Zero]>>
            /\ Rect(handle'[h]) = <<Zero, Zero, Zero, Zero>>
            /\ handle'[h].Maximized = handle[h].Maximized
            /\ windows'[id].ID = id
            /\ Geom(windows'[id]) = <<Zero, Zero, Zero, Zero, FALSE>>
            /\ connectables'[id] = h]_vars

\* An Add found a zero record and moved and resized to zero a connectable
\* that is maximized (as it was before: nothing but Maximize sets the flag);
\* the record is still zero and not maximized.
C19_Witness ==
    /\ AddKnown(last)
    /\ windows[last.id] = NewWindow(last.id)
    /\ calls = <<MoveCall(last.h, Zero, Zero), ResizeCall(last.h, Zero, Zero)>>
    /\ handle[last.h].Maximized
    /\ Rect(handle[last.h]) = <<Zero, Zero, Zero, Zero>>

----------------------------------------------------------------------------
(* C20 *)

\* C20: every id with a registered connectable has a record, and the record
\* stored under the id carries it as its ID.
C20_RegisteredHasRecord ==
    \A id \in DOMAIN connectables :
        /\ id \in DOMAIN windows
        /\ windows[id].ID = id

\* Both ids have a connectable, and a Restore succeeded on a payload that
\* holds one of them.
C20_Witness ==
    /\ RestoreOk(last)
    /\ DOMAIN connectables = IDs
    /\ Cardinality(PayloadNames(file)) = 1
    /\ \A id \in IDs : windows[id].ID = id

====
